---------------------------- MODULE Spec2Model ----------------------------
(***************************************************************************)
(* Streaming technical-analysis indicators of ta-rs (AlgoQ fork):          *)
(*   Minimum, ExponentialMovingAverage, WindowedExponentialMovingAverage,  *)
(*   AverageTrueRange (TrueRange -> ExponentialMovingAverage).             *)
(*                                                                         *)
(* A driver constructs one indicator with new(period) and then calls       *)
(* nexta(input) and reset() on it in any order.  Indicators share no state *)
(* with each other, so the driver owns one indicator per behaviour.        *)
(*                                                                         *)
(* f64 values of the smoothers are modelled as exact rationals <<n, d>>    *)
(* in lowest terms with d > 0.  Minimum only compares and copies its       *)
(* values, so they are integers, with INFINITY above every finite input.   *)
(***************************************************************************)
EXTENDS Integers, Sequences, FiniteSets

VARIABLES
    min,    \* the Minimum instance: NoInstance, Err(InvalidParameter) or Ok(Self)
    ema,    \* the ExponentialMovingAverage instance
    wema,   \* the WindowedExponentialMovingAverage instance
    atr,    \* the AverageTrueRange instance
    req,    \* the period passed to new
    hist,   \* the inputs of the nexta calls since new or the last reset
    out,    \* the value returned by the last nexta call
    last,   \* the last call: "none", "new", "nexta" or "reset"
    resets, \* number of reset calls since new
    steps   \* number of nexta and reset calls since new

vars == <<min, ema, wema, atr, req, hist, out, last, resets, steps>>

----------------------------------------------------------------------------
(* Bounds of the model *)

MaxPeriod == 3

MaxSteps == 5

MaxVal == 2

----------------------------------------------------------------------------
(* Exact arithmetic standing for f64 arithmetic *)

Abs(x) == IF x < 0 THEN -x ELSE x

RECURSIVE GCD(_, _)
GCD(a, b) == IF b = 0 THEN a ELSE GCD(b, a % b)

Rat(n, d) ==
    LET g == GCD(Abs(n), d)
    IN  <<n \div g, d \div g>>

RAdd(a, b) ==
    LET g == GCD(a[2], b[2])
    IN  Rat(a[1] * (b[2] \div g) + b[1] * (a[2] \div g), (a[2] \div g) * b[2])

RNeg(a) == <<-a[1], a[2]>>

RSub(a, b) == RAdd(a, RNeg(b))

RMul(a, b) ==
    LET g1 == GCD(Abs(a[1]), b[2])
        g2 == GCD(Abs(b[1]), a[2])
    IN  Rat((a[1] \div g1) * (b[1] \div g2), (a[2] \div g2) * (b[2] \div g1))

RAbs(a) == <<Abs(a[1]), a[2]>>

RLt(a, b) == RSub(a, b)[1] < 0

RMax(a, b) == IF RLt(a, b) THEN b ELSE a

RECURSIVE RPowi(_, _)
RPowi(a, n) == IF n = 0 THEN <<1, 1>> ELSE RMul(a, RPowi(a, n - 1))

Zero == <<0, 1>>

One == <<1, 1>>

----------------------------------------------------------------------------
(* Result<Self> *)

NoInstance == [tag |-> "None"]

ErrInvalidParameter == [tag |-> "Err", err |-> "InvalidParameter"]

IsOk(r) == r.tag = "Ok"

----------------------------------------------------------------------------
(* Minimum *)

INFINITY == 1000

MinimumNew(period) ==
    IF period = 0
    THEN ErrInvalidParameter
    ELSE [tag |-> "Ok", period |-> period, min_index |-> 0, cur_index |-> 0,
          deque |-> [i \in 0..(period - 1) |-> INFINITY]]

RECURSIVE FindMinIndexFrom(_, _, _, _, _)
FindMinIndexFrom(deque, len, i, m, index) ==
    IF i >= len THEN index
    ELSE IF deque[i] < m
         THEN FindMinIndexFrom(deque, len, i + 1, deque[i], i)
         ELSE FindMinIndexFrom(deque, len, i + 1, m, index)

FindMinIndexSkipsFirst(self) ==
    FindMinIndexFrom(self.deque, self.period, 1, INFINITY, 0)

find_min_index(self) ==
    FindMinIndexFrom(self.deque, self.period, 0, INFINITY, 0)

MinimumNextaNoRescan(self, input) ==
    LET deque1 == [self.deque EXCEPT ![self.cur_index] = input]
        s1 == [self EXCEPT !.deque = deque1]
        min_index1 == IF input < deque1[self.min_index]
                      THEN self.cur_index
                      ELSE self.min_index
        cur_index1 == IF self.cur_index + 1 < self.period
                      THEN self.cur_index + 1
                      ELSE 0
    IN  [self |-> [s1 EXCEPT !.min_index = min_index1, !.cur_index = cur_index1],
         out  |-> deque1[min_index1]]

MinimumNextaNoWrap(self, input) ==
    LET deque1 == [self.deque EXCEPT ![self.cur_index] = input]
        s1 == [self EXCEPT !.deque = deque1]
        min_index1 == IF input < deque1[self.min_index]
                      THEN self.cur_index
                      ELSE IF self.min_index = self.cur_index
                           THEN find_min_index(s1)
                           ELSE self.min_index
        cur_index1 == self.cur_index + 1
    IN  [self |-> [s1 EXCEPT !.min_index = min_index1, !.cur_index = cur_index1],
         out  |-> deque1[min_index1]]

MinimumNextaAdvanceFirst(self, input) ==
    LET deque1 == [self.deque EXCEPT ![self.cur_index] = input]
        s1 == [self EXCEPT !.deque = deque1]
        cur_index1 == IF self.cur_index + 1 < self.period
                      THEN self.cur_index + 1
                      ELSE 0
        min_index1 == IF input < deque1[self.min_index]
                      THEN cur_index1
                      ELSE IF self.min_index = self.cur_index
                           THEN find_min_index(s1)
                           ELSE self.min_index
    IN  [self |-> [s1 EXCEPT !.min_index = min_index1, !.cur_index = cur_index1],
         out  |-> deque1[min_index1]]

MinimumNexta(self, input) ==
    LET deque1 == [self.deque EXCEPT ![self.cur_index] = input]
        s1 == [self EXCEPT !.deque = deque1]
        min_index1 == IF input < deque1[self.min_index]
                      THEN self.cur_index
                      ELSE IF self.min_index = self.cur_index
                           THEN find_min_index(s1)
                           ELSE self.min_index
        cur_index1 == IF self.cur_index + 1 < self.period
                      THEN self.cur_index + 1
                      ELSE 0
    IN  [self |-> [s1 EXCEPT !.min_index = min_index1, !.cur_index = cur_index1],
         out  |-> deque1[min_index1]]

MinimumResetKeepsSlots(self) == self

MinimumReset(self) ==
    [self EXCEPT !.deque = [i \in 0..(self.period - 1) |-> INFINITY]]

----------------------------------------------------------------------------
(* ExponentialMovingAverage *)

ExponentialMovingAverageNewRejectsOne(period) ==
    IF period <= 1
    THEN ErrInvalidParameter
    ELSE [tag |-> "Ok", period |-> period, k |-> Rat(1, period),
          current |-> Zero, is_new |-> TRUE]

ExponentialMovingAverageNew(period) ==
    IF period = 0
    THEN ErrInvalidParameter
    ELSE [tag |-> "Ok", period |-> period, k |-> Rat(1, period),
          current |-> Zero, is_new |-> TRUE]

ExponentialMovingAverageNextaNoSeed(self, input) ==
    LET current1 == RAdd(RMul(self.k, input),
                         RMul(RSub(One, self.k), self.current))
    IN  [self |-> [self EXCEPT !.is_new = FALSE, !.current = current1],
         out  |-> current1]

ExponentialMovingAverageNexta(self, input) ==
    LET current1 == IF self.is_new
                    THEN input
                    ELSE RAdd(RMul(self.k, input),
                              RMul(RSub(One, self.k), self.current))
    IN  [self |-> [self EXCEPT !.is_new = FALSE, !.current = current1],
         out  |-> current1]

ExponentialMovingAverageResetKeepsFlag(self) ==
    [self EXCEPT !.current = Zero]

ExponentialMovingAverageResetRecomputesK(self) ==
    [self EXCEPT !.current = Zero, !.is_new = TRUE,
                 !.k = Rat(2, self.period + 1)]

ExponentialMovingAverageReset(self) ==
    [self EXCEPT !.current = Zero, !.is_new = TRUE]

----------------------------------------------------------------------------
(* WindowedExponentialMovingAverage *)

WindowedExponentialMovingAverageNew(period) ==
    IF period = 0
    THEN ErrInvalidParameter
    ELSE [tag |-> "Ok", period |-> period, index |-> 0, count |-> 0,
          wsum |-> Zero, k |-> Rat(2, period + 1),
          deque |-> [i \in 0..(period - 1) |-> Zero]]

WindowedExponentialMovingAverageNextaNoKeep(self, input) ==
    LET old_val == self.deque[self.index]
        deque1 == [self.deque EXCEPT ![self.index] = input]
        index1 == IF self.index + 1 < self.period THEN self.index + 1 ELSE 0
        s1 == [self EXCEPT !.deque = deque1, !.index = index1]
    IN  IF self.count = 0
        THEN [self |-> [s1 EXCEPT !.count = 1, !.wsum = input], out |-> input]
        ELSE LET remove_old_val == ~(self.count < self.period)
                 count1 == IF self.count < self.period
                           THEN self.count + 1
                           ELSE self.count
                 wsum1 == RAdd(RMul(input, self.k),
                               RMul(self.wsum, RSub(One, self.k)))
                 factor == RPowi(RSub(One, self.k), self.period)
                 wsum2 == IF remove_old_val
                          THEN RSub(wsum1, RMul(old_val, factor))
                          ELSE wsum1
             IN  [self |-> [s1 EXCEPT !.count = count1, !.wsum = wsum2],
                  out  |-> wsum2]

WindowedExponentialMovingAverageNextaLateEvict(self, input) ==
    LET old_val == self.deque[self.index]
        deque1 == [self.deque EXCEPT ![self.index] = input]
        index1 == IF self.index + 1 < self.period THEN self.index + 1 ELSE 0
        s1 == [self EXCEPT !.deque = deque1, !.index = index1]
    IN  IF self.count = 0
        THEN [self |-> [s1 EXCEPT !.count = 1, !.wsum = input], out |-> input]
        ELSE LET remove_old_val == ~(self.count <= self.period)
                 count1 == IF self.count <= self.period
                           THEN self.count + 1
                           ELSE self.count
                 wsum1 == RAdd(RMul(input, self.k),
                               RMul(self.wsum, RSub(One, self.k)))
                 factor == RPowi(RSub(One, self.k), self.period)
                 weighted_oldest_valid_val == RMul(deque1[index1], factor)
                 weighted_dropped_val == RMul(old_val, factor)
                 wsum2 == IF remove_old_val
                          THEN RAdd(RSub(wsum1, weighted_dropped_val),
                                    weighted_oldest_valid_val)
                          ELSE wsum1
             IN  [self |-> [s1 EXCEPT !.count = count1, !.wsum = wsum2],
                  out  |-> wsum2]

WindowedExponentialMovingAverageNextaNoWrap(self, input) ==
    LET old_val == self.deque[self.index]
        deque1 == [self.deque EXCEPT ![self.index] = input]
        index1 == self.index + 1
        s1 == [self EXCEPT !.deque = deque1, !.index = index1]
    IN  IF self.count = 0
        THEN [self |-> [s1 EXCEPT !.count = 1, !.wsum = input], out |-> input]
        ELSE LET remove_old_val == ~(self.count < self.period)
                 count1 == IF self.count < self.period
                           THEN self.count + 1
                           ELSE self.count
                 wsum1 == RAdd(RMul(input, self.k),
                               RMul(self.wsum, RSub(One, self.k)))
                 factor == RPowi(RSub(One, self.k), self.period)
                 weighted_oldest_valid_val == RMul(deque1[index1], factor)
                 weighted_dropped_val == RMul(old_val, factor)
                 wsum2 == IF remove_old_val
                          THEN RAdd(RSub(wsum1, weighted_dropped_val),
                                    weighted_oldest_valid_val)
                          ELSE wsum1
             IN  [self |-> [s1 EXCEPT !.count = count1, !.wsum = wsum2],
                  out  |-> wsum2]

WindowedExponentialMovingAverageNextaShortFactor(self, input) ==
    LET old_val == self.deque[self.index]
        deque1 == [self.deque EXCEPT ![self.index] = input]
        index1 == IF self.index + 1 < self.period THEN self.index + 1 ELSE 0
        s1 == [self EXCEPT !.deque = deque1, !.index = index1]
    IN  IF self.count = 0
        THEN [self |-> [s1 EXCEPT !.count = 1, !.wsum = input], out |-> input]
        ELSE LET remove_old_val == ~(self.count < self.period)
                 count1 == IF self.count < self.period
                           THEN self.count + 1
                           ELSE self.count
                 wsum1 == RAdd(RMul(input, self.k),
                               RMul(self.wsum, RSub(One, self.k)))
                 factor == RPowi(RSub(One, self.k), self.period - 1)
                 weighted_oldest_valid_val == RMul(deque1[index1], factor)
                 weighted_dropped_val == RMul(old_val, factor)
                 wsum2 == IF remove_old_val
                          THEN RAdd(RSub(wsum1, weighted_dropped_val),
                                    weighted_oldest_valid_val)
                          ELSE wsum1
             IN  [self |-> [s1 EXCEPT !.count = count1, !.wsum = wsum2],
                  out  |-> wsum2]

WindowedExponentialMovingAverageNexta(self, input) ==
    LET old_val == self.deque[self.index]
        deque1 == [self.deque EXCEPT ![self.index] = input]
        index1 == IF self.index + 1 < self.period THEN self.index + 1 ELSE 0
        s1 == [self EXCEPT !.deque = deque1, !.index = index1]
    IN  IF self.count = 0
        THEN [self |-> [s1 EXCEPT !.count = 1, !.wsum = input], out |-> input]
        ELSE LET remove_old_val == ~(self.count < self.period)
                 count1 == IF self.count < self.period
                           THEN self.count + 1
                           ELSE self.count
                 wsum1 == RAdd(RMul(input, self.k),
                               RMul(self.wsum, RSub(One, self.k)))
                 factor == RPowi(RSub(One, self.k), self.period)
                 weighted_oldest_valid_val == RMul(deque1[index1], factor)
                 weighted_dropped_val == RMul(old_val, factor)
                 wsum2 == IF remove_old_val
                          THEN RAdd(RSub(wsum1, weighted_dropped_val),
                                    weighted_oldest_valid_val)
                          ELSE wsum1
             IN  [self |-> [s1 EXCEPT !.count = count1, !.wsum = wsum2],
                  out  |-> wsum2]

WindowedExponentialMovingAverageResetKeepsCount(self) ==
    [self EXCEPT !.index = 0, !.wsum = Zero,
                 !.deque = [i \in 0..(self.period - 1) |-> Zero]]

WindowedExponentialMovingAverageResetKeepsDeque(self) ==
    [self EXCEPT !.index = 0, !.count = 0, !.wsum = Zero]

WindowedExponentialMovingAverageResetKeepsIndex(self) ==
    [self EXCEPT !.count = 0, !.wsum = Zero,
                 !.deque = [i \in 0..(self.period - 1) |-> Zero]]

WindowedExponentialMovingAverageReset(self) ==
    [self EXCEPT !.index = 0, !.count = 0, !.wsum = Zero,
                 !.deque = [i \in 0..(self.period - 1) |-> Zero]]

----------------------------------------------------------------------------
(* TrueRange: Option<f64> prev_close is <<>> (None) or <<v>> (Some(v)) *)

TrueRangeNew == [prev_close |-> <<>>]

TrueRangeNexta(self, bar) ==
    LET max_dist ==
            IF self.prev_close = <<>>
            THEN RSub(bar.high, bar.low)
            ELSE LET prev_close == self.prev_close[1]
                     dist1 == RSub(bar.high, bar.low)
                     dist2 == RAbs(RSub(bar.high, prev_close))
                     dist3 == RAbs(RSub(prev_close, bar.low))
                 IN  RMax(RMax(dist1, dist2), dist3)
    IN  [self |-> [self EXCEPT !.prev_close = <<bar.close>>], out |-> max_dist]

TrueRangeReset(self) == [self EXCEPT !.prev_close = <<>>]

----------------------------------------------------------------------------
(* AverageTrueRange *)

AverageTrueRangeNew(period) ==
    LET e == ExponentialMovingAverageNew(period)
    IN  IF e.tag = "Err"
        THEN e
        ELSE [tag |-> "Ok", true_range |-> TrueRangeNew, ema |-> e]

AverageTrueRangePeriod(self) == self.ema.period

\* Nexta<&T>; Nexta<f64> chains the same two calls through TrueRange's
\* f64 update, whose source is not part of this development
AverageTrueRangeNexta(self, bar) ==
    LET t == TrueRangeNexta(self.true_range, bar)
        e == ExponentialMovingAverageNexta(self.ema, t.out)
    IN  [self |-> [self EXCEPT !.true_range = t.self, !.ema = e.self],
         out  |-> e.out]

AverageTrueRangeResetEmaOnly(self) ==
    [self EXCEPT !.ema = ExponentialMovingAverageReset(self.ema)]

AverageTrueRangeReset(self) ==
    [self EXCEPT !.true_range = TrueRangeReset(self.true_range),
                 !.ema = ExponentialMovingAverageReset(self.ema)]

----------------------------------------------------------------------------
(* Inputs of the driver *)

Periods == 0..MaxPeriod

MinInputs == 0..MaxVal

\* 2.0, 5.0, 1.0, 6.25: the inputs of the ExponentialMovingAverage doc example
EmaInputs == {<<2, 1>>, <<5, 1>>, <<1, 1>>, <<25, 4>>}

\* 10.0, 9.4, 23.1, 0.0: the first numbers of tests::check_against_ema
WemaInputs == {<<10, 1>>, <<47, 5>>, <<231, 10>>, <<0, 1>>}

Bar(high, low, close) == [high |-> high, low |-> low, close |-> close]

\* the bars of the AverageTrueRange doc example (high, low, close)
DocBars ==
    << Bar(<<10, 1>>, <<9, 1>>, <<19, 2>>),
       Bar(<<52, 5>>, <<49, 5>>, <<51, 5>>),
       Bar(<<107, 10>>, <<47, 5>>, <<97, 10>>),
       Bar(<<46, 5>>, <<81, 10>>, <<42, 5>>) >>

Bars == {DocBars[i] : i \in 1..4}

----------------------------------------------------------------------------
(* The driver *)

Init ==
    /\ min = NoInstance
    /\ ema = NoInstance
    /\ wema = NoInstance
    /\ atr = NoInstance
    /\ req = 0
    /\ hist = <<>>
    /\ out = "none"
    /\ last = "none"
    /\ resets = 0
    /\ steps = 0

NothingBuilt ==
    /\ min = NoInstance
    /\ ema = NoInstance
    /\ wema = NoInstance
    /\ atr = NoInstance

Built(period) ==
    /\ req' = period
    /\ last' = "new"
    /\ UNCHANGED <<hist, out, resets, steps>>

Called(input, output) ==
    /\ hist' = Append(hist, input)
    /\ out' = output
    /\ last' = "nexta"
    /\ steps' = steps + 1
    /\ UNCHANGED <<req, resets>>

WasReset ==
    /\ hist' = <<>>
    /\ last' = "reset"
    /\ resets' = resets + 1
    /\ steps' = steps + 1
    /\ UNCHANGED <<req, out>>

MinNew(period) ==
    /\ NothingBuilt
    /\ min' = MinimumNew(period)
    /\ Built(period)
    /\ UNCHANGED <<ema, wema, atr>>

MinNexta(input) ==
    /\ IsOk(min)
    /\ steps < MaxSteps
    /\ LET r == MinimumNexta(min, input)
       IN  /\ min' = r.self
           /\ Called(input, r.out)
    /\ UNCHANGED <<ema, wema, atr>>

MinReset ==
    /\ IsOk(min)
    /\ steps < MaxSteps
    /\ min' = MinimumReset(min)
    /\ WasReset
    /\ UNCHANGED <<ema, wema, atr>>

EmaNew(period) ==
    /\ NothingBuilt
    /\ ema' = ExponentialMovingAverageNew(period)
    /\ Built(period)
    /\ UNCHANGED <<min, wema, atr>>

EmaNexta(input) ==
    /\ IsOk(ema)
    /\ steps < MaxSteps
    /\ LET r == ExponentialMovingAverageNexta(ema, input)
       IN  /\ ema' = r.self
           /\ Called(input, r.out)
    /\ UNCHANGED <<min, wema, atr>>

EmaReset ==
    /\ IsOk(ema)
    /\ steps < MaxSteps
    /\ ema' = ExponentialMovingAverageReset(ema)
    /\ WasReset
    /\ UNCHANGED <<min, wema, atr>>

WemaNew(period) ==
    /\ NothingBuilt
    /\ wema' = WindowedExponentialMovingAverageNew(period)
    /\ Built(period)
    /\ UNCHANGED <<min, ema, atr>>

WemaNexta(input) ==
    /\ IsOk(wema)
    /\ steps < MaxSteps
    /\ LET r == WindowedExponentialMovingAverageNexta(wema, input)
       IN  /\ wema' = r.self
           /\ Called(input, r.out)
    /\ UNCHANGED <<min, ema, atr>>

WemaReset ==
    /\ IsOk(wema)
    /\ steps < MaxSteps
    /\ wema' = WindowedExponentialMovingAverageReset(wema)
    /\ WasReset
    /\ UNCHANGED <<min, ema, atr>>

AtrNew(period) ==
    /\ NothingBuilt
    /\ atr' = AverageTrueRangeNew(period)
    /\ Built(period)
    /\ UNCHANGED <<min, ema, wema>>

AtrNexta(bar) ==
    /\ IsOk(atr)
    /\ steps < MaxSteps
    /\ LET r == AverageTrueRangeNexta(atr, bar)
       IN  /\ atr' = r.self
           /\ Called(bar, r.out)
    /\ UNCHANGED <<min, ema, wema>>

AtrReset ==
    /\ IsOk(atr)
    /\ steps < MaxSteps
    /\ atr' = AverageTrueRangeReset(atr)
    /\ WasReset
    /\ UNCHANGED <<min, ema, wema>>

Next ==
    \/ \E period \in Periods : MinNew(period)
    \/ \E input \in MinInputs : MinNexta(input)
    \/ MinReset
    \/ \E period \in Periods : EmaNew(period)
    \/ \E input \in EmaInputs : EmaNexta(input)
    \/ EmaReset
    \/ \E period \in Periods : WemaNew(period)
    \/ \E input \in WemaInputs : WemaNexta(input)
    \/ WemaReset
    \/ \E period \in Periods : AtrNew(period)
    \/ \E bar \in Bars : AtrNexta(bar)
    \/ AtrReset

Spec == Init /\ [][Next]_vars

----------------------------------------------------------------------------
(* Reference computations used to state the properties *)

Min2(a, b) == IF a < b THEN a ELSE b

LastN(s, n) == SubSeq(s, Len(s) - n + 1, Len(s))

IsPrefix(s, t) == Len(s) <= Len(t) /\ s = SubSeq(t, 1, Len(s))

\* brute-force minimum of a non-empty sequence of integers
RECURSIVE SeqMin(_)
SeqMin(s) ==
    IF Len(s) = 1 THEN s[1] ELSE Min2(s[1], SeqMin(Tail(s)))

\* textbook EMA over a non-empty sequence: seeded with s[1], then
\* e := k*x + (1-k)*e for the remaining values in order
RECURSIVE PlainEma(_, _)
PlainEma(k, s) ==
    IF Len(s) = 1
    THEN s[1]
    ELSE LET n == Len(s)
         IN  RAdd(RMul(k, s[n]),
                  RMul(RSub(One, k), PlainEma(k, SubSeq(s, 1, n - 1))))

\* |r| < 1e-9
Within1e9(r) == Abs(r[1]) <= (r[2] - 1) \div 1000000000

\* a freshly constructed instance fed the sequence s: the last result
RECURSIVE RunMinimum(_, _)
RunMinimum(self, s) ==
    IF Len(s) = 1
    THEN MinimumNexta(self, s[1])
    ELSE MinimumNexta(RunMinimum(self, SubSeq(s, 1, Len(s) - 1)).self, s[Len(s)])

RECURSIVE RunEma(_, _)
RunEma(self, s) ==
    IF Len(s) = 1
    THEN ExponentialMovingAverageNexta(self, s[1])
    ELSE ExponentialMovingAverageNexta(
             RunEma(self, SubSeq(s, 1, Len(s) - 1)).self, s[Len(s)])

RECURSIVE RunWema(_, _)
RunWema(self, s) ==
    IF Len(s) = 1
    THEN WindowedExponentialMovingAverageNexta(self, s[1])
    ELSE WindowedExponentialMovingAverageNexta(
             RunWema(self, SubSeq(s, 1, Len(s) - 1)).self, s[Len(s)])

RECURSIVE RunAtr(_, _)
RunAtr(self, s) ==
    IF Len(s) = 1
    THEN AverageTrueRangeNexta(self, s[1])
    ELSE AverageTrueRangeNexta(
             RunAtr(self, SubSeq(s, 1, Len(s) - 1)).self, s[Len(s)])

\* true range of the i-th bar of s, by the glossary's formula
RefTrueRange(s, i) ==
    IF i = 1
    THEN RSub(s[1].high, s[1].low)
    ELSE RMax(RMax(RSub(s[i].high, s[i].low),
                   RAbs(RSub(s[i].high, s[i - 1].close))),
              RAbs(RSub(s[i - 1].close, s[i].low)))

RefTrueRanges(s) == [i \in 1..Len(s) |-> RefTrueRange(s, i)]

----------------------------------------------------------------------------
(* C1: a freshly constructed Minimum(p) returns, on its n-th nexta call,   *)
(* the minimum of the last min(n, p) inputs, and never the +infinity       *)
(* sentinel of a slot not yet written.                                     *)
C1_MinimumSlidingWindow ==
    (IsOk(min) /\ last = "nexta" /\ resets = 0) =>
        /\ out = SeqMin(LastN(hist, Min2(Len(hist), min.period)))
        /\ out # INFINITY

\* period 3, the old minimum hist[1] has left the window and the rescan
\* found a minimum that is not the newest input
C1_Witness ==
    /\ IsOk(min) /\ last = "nexta" /\ resets = 0
    /\ min.period = 3 /\ Len(hist) = 5
    /\ hist[1] < out /\ hist[2] < out
    /\ out < hist[5]

(* C2: once at least p values have been fed, the output of                 *)
(* WindowedExponentialMovingAverage(p) equals a plain EMA with coefficient *)
(* 2/(p+1) seeded with the oldest of the last p inputs and applied to the  *)
(* remaining p-1 of them, exactly in rational arithmetic.                  *)
C2_WemaIsRollingPlainEma ==
    (IsOk(wema) /\ last = "nexta" /\ Len(hist) >= wema.period) =>
        out = PlainEma(Rat(2, wema.period + 1), LastN(hist, wema.period))

\* period 3, two evictions done, each with a non-zero correction
C2_Witness ==
    /\ IsOk(wema) /\ last = "nexta"
    /\ wema.period = 3 /\ Len(hist) = 5
    /\ hist[1] # hist[2] /\ hist[2] # hist[3]

\* the numbers of tests::check_against_ema
TestNumbers ==
    << <<10, 1>>, <<47, 5>>, <<231, 10>>, <<0, 1>>, <<0, 1>>,
       <<91837261, 1000000>>, <<0, 1>>, <<1, 2>>, <<-3, 2>>, <<251, 10>>,
       <<-168247, 2000>>, <<101, 1>>, <<78, 1>>, <<1, 1>>, <<779, 125>> >>

(* C3: tests::check_against_ema: for every contiguous length-p window of   *)
(* the test's numbers, the output of WindowedExponentialMovingAverage(p)   *)
(* after consuming the window differs by less than 1e-9 from the last      *)
(* output of a fresh ExponentialMovingAverage(p) fed that window.          *)
C3_WemaAgreesWithLibraryEma ==
    (/\ IsOk(wema) /\ last = "nexta" /\ resets = 0
     /\ IsPrefix(hist, TestNumbers)
     /\ Len(hist) >= wema.period) =>
        Within1e9(RSub(
            RunEma(ExponentialMovingAverageNew(wema.period),
                   LastN(hist, wema.period)).out,
            out))

(* C4: after reset(), every output of Minimum(p) equals the output of a    *)
(* freshly constructed Minimum(p) fed the same inputs since the reset; the *)
(* first output after reset equals the first input.                        *)
C4_MinimumResetIsFresh ==
    (IsOk(min) /\ last = "nexta" /\ resets > 0) =>
        /\ out = RunMinimum(MinimumNew(min.period), hist).out
        /\ Len(hist) = 1 => out = hist[1]

\* period 3, reset with the write index and the cached index off 0 (two
\* inputs before the reset, cur_index 2 kept), then two more inputs, the
\* last output not the newest input
C4_Witness ==
    /\ IsOk(min) /\ last = "nexta" /\ resets = 1
    /\ min.period = 3 /\ steps = 5 /\ Len(hist) = 2
    /\ min.cur_index = 1
    /\ out = hist[1] /\ out < hist[2]

(* C5: new(0) returns Err(InvalidParameter) and new(p) returns Ok for      *)
(* every p >= 1, for Minimum, ExponentialMovingAverage,                    *)
(* WindowedExponentialMovingAverage and AverageTrueRange (which fails      *)
(* exactly when its inner EMA construction fails); no instance with        *)
(* period 0 is reachable.                                                  *)
Constructed(r, period) ==
    r # NoInstance =>
        /\ (r = ErrInvalidParameter) <=> (req = 0)
        /\ IsOk(r) <=> (req >= 1)
        /\ IsOk(r) => (period = req /\ period >= 1)

C5_ConstructionValidation ==
    /\ Constructed(min, IF IsOk(min) THEN min.period ELSE 0)
    /\ Constructed(ema, IF IsOk(ema) THEN ema.period ELSE 0)
    /\ Constructed(wema, IF IsOk(wema) THEN wema.period ELSE 0)
    /\ Constructed(atr, IF IsOk(atr) THEN AverageTrueRangePeriod(atr) ELSE 0)
    /\ atr # NoInstance =>
           ((atr.tag = "Err") <=> (ExponentialMovingAverageNew(req).tag = "Err"))

\* AverageTrueRange::new(0) has returned the inner EMA's error
C5_Witness ==
    /\ last = "new" /\ req = 0
    /\ atr = ErrInvalidParameter

(* C6: the first nexta call on an ExponentialMovingAverage after           *)
(* construction, and the first after any reset(), returns exactly its      *)
(* input, for every period and whatever the earlier history.               *)
C6_EmaSeeding ==
    (IsOk(ema) /\ last = "nexta" /\ Len(hist) = 1) => out = hist[1]

\* first call after a reset that followed three smoothed inputs, period 3
C6_Witness ==
    /\ IsOk(ema) /\ last = "nexta" /\ Len(hist) = 1
    /\ ema.period = 3 /\ resets = 1 /\ steps = 5
    /\ out = hist[1] /\ ~ema.is_new

\* the outputs of the ExponentialMovingAverage doc example: 2.0, 3.5, 2.25, 4.25
DocEmaInputs == << <<2, 1>>, <<5, 1>>, <<1, 1>>, <<25, 4>> >>

DocEmaOutputs == << <<2, 1>>, <<7, 2>>, <<9, 4>>, <<17, 4>> >>

(* C7: every nexta call of an ExponentialMovingAverage other than the      *)
(* first since new/reset returns k*x + (1-k)*previous_output with          *)
(* k = 1/period; for period 3 the inputs [2.0, 5.0, 1.0, 6.25] produce     *)
(* [2.0, 3.5, 2.25, 4.25].                                                 *)
C7_EmaRecurrence ==
    (IsOk(ema) /\ last = "nexta") =>
        /\ out = PlainEma(Rat(1, ema.period), hist)
        /\ (ema.period = 3 /\ resets = 0 /\ IsPrefix(hist, DocEmaInputs)) =>
               out = DocEmaOutputs[Len(hist)]

\* the outputs of the AverageTrueRange doc example: 1.0, 0.95, 1.125, 1.3625
DocAtrOutputs == << <<1, 1>>, <<19, 20>>, <<9, 8>>, <<109, 80>> >>

(* C8: AverageTrueRange(p).nexta(bar) returns EMA_p(TR), TR = high-low on  *)
(* the first bar and max(high-low, |high-prev_close|, |prev_close-low|)    *)
(* afterwards, EMA_p with k = 1/p; for period 3 the four doc bars give     *)
(* 1.0, 0.95, 1.125, 1.3625.                                               *)
C8_AtrComposition ==
    (IsOk(atr) /\ last = "nexta") =>
        /\ out = PlainEma(Rat(1, AverageTrueRangePeriod(atr)), RefTrueRanges(hist))
        /\ (AverageTrueRangePeriod(atr) = 3 /\ resets = 0
            /\ IsPrefix(hist, DocBars)) =>
               out = DocAtrOutputs[Len(hist)]

\* the output of an instance built by new(req) and fed hist
FreshOut ==
    IF IsOk(min) THEN RunMinimum(MinimumNew(req), hist).out
    ELSE IF IsOk(ema) THEN RunEma(ExponentialMovingAverageNew(req), hist).out
    ELSE IF IsOk(wema)
         THEN RunWema(WindowedExponentialMovingAverageNew(req), hist).out
    ELSE RunAtr(AverageTrueRangeNew(req), hist).out

(* C9: for each of the four indicators, a reset() that directly follows a  *)
(* reset() leaves the state as it was, and every output after a reset      *)
(* is the output for the inputs fed since that reset alone, whatever was   *)
(* fed or reset before it.                                                 *)
C9_ResetIdempotentHistoryFree ==
    /\ []((last = "nexta" /\ resets > 0) => out = FreshOut)
    /\ [][(last = "reset" /\ last' = "reset") =>
              <<min, ema, wema, atr>>' = <<min, ema, wema, atr>>]_vars

\* Minimum(3) after two resets: the write index kept from before the
\* resets (0 after one more input, where a fresh instance has 1)
C9_Witness ==
    /\ IsOk(min) /\ last = "nexta" /\ resets = 2
    /\ min.period = 3 /\ Len(hist) = 1
    /\ min.cur_index = 0
    /\ out = hist[1]

(* C10: after Minimum::reset() every buffer slot holds the +infinity       *)
(* sentinel and both cur_index and min_index are 0, whatever the history.  *)
C10_MinimumResetRestoresIndices ==
    (IsOk(min) /\ last = "reset") =>
        /\ \A i \in 0..(min.period - 1) : min.deque[i] = INFINITY
        /\ min.cur_index = 0
        /\ min.min_index = 0

(* C11: after reset() the whole state of an ExponentialMovingAverage        *)
(* (period, k, current, is_new) and of a WindowedExponentialMovingAverage  *)
(* (period, k, index, count, wsum, every slot) equals, field for field,    *)
(* the state new(period) returned, whatever calls came before.             *)
C11_ResetRestoresConstructedState ==
    /\ (IsOk(ema) /\ last = "reset") => ema = ExponentialMovingAverageNew(req)
    /\ (IsOk(wema) /\ last = "reset") =>
           wema = WindowedExponentialMovingAverageNew(req)

\* WEMA(3) reset after four inputs: window full, one eviction
C11_Witness ==
    /\ IsOk(wema) /\ last = "reset"
    /\ wema.period = 3 /\ resets = 1 /\ steps = 5

----------------------------------------------------------------------------
(* The operations of nexta and reset that can panic: slice indexing out of *)
(* bounds and the unwrap of usize -> i32 (try_into)                        *)

I32_MAX == 2147483647

InBounds(deque, i) == i \in DOMAIN deque

MinimumNextaPanics(self) ==
    \/ ~InBounds(self.deque, self.cur_index)
    \/ ~InBounds(self.deque, self.min_index)

MinimumResetPanics(self) ==
    \E i \in 0..(self.period - 1) : ~InBounds(self.deque, i)

WindowedExponentialMovingAverageNextaPanics(self) ==
    \/ ~InBounds(self.deque, self.index)
    \/ /\ self.count # 0
       /\ ~(self.count < self.period)
       /\ \/ self.period > I32_MAX
          \/ ~InBounds(self.deque,
                       IF self.index + 1 < self.period THEN self.index + 1 ELSE 0)

WindowedExponentialMovingAverageResetPanics(self) ==
    \E i \in 0..(self.period - 1) : ~InBounds(self.deque, i)

C13_AtrResetResetsBoth ==
    (IsOk(atr) /\ last = "nexta" /\ resets > 0 /\ Len(hist) = 1) =>
        out = RSub(hist[1].high, hist[1].low)

\* ATR(3): three bars, reset, then the fourth doc bar, whose true range
\* against any earlier close is larger than its high - low = 1.1
C13_Witness ==
    /\ IsOk(atr) /\ last = "nexta" /\ resets = 1 /\ steps = 5
    /\ AverageTrueRangePeriod(atr) = 3
    /\ hist = <<DocBars[4]>>
    /\ out = <<11, 10>>

(* C14: period() returns the value passed to new (for AverageTrueRange the *)
(* period of its owned EMA) in every reachable state, and no nexta or      *)
(* reset call changes period or the smoothing coefficient k.               *)
C14_PeriodImmutable ==
    /\ [](/\ IsOk(min) => min.period = req
          /\ IsOk(ema) => (/\ ema.period = req
                           /\ ema.k = ExponentialMovingAverageNew(req).k)
          /\ IsOk(wema) => (/\ wema.period = req
                            /\ wema.k = WindowedExponentialMovingAverageNew(req).k)
          /\ IsOk(atr) => (/\ AverageTrueRangePeriod(atr) = req
                           /\ atr.ema.k = ExponentialMovingAverageNew(req).k))
    /\ [][/\ IsOk(min) => min'.period = min.period
          /\ IsOk(ema) => (ema'.period = ema.period /\ ema'.k = ema.k)
          /\ IsOk(wema) => (wema'.period = wema.period /\ wema'.k = wema.k)
          /\ IsOk(atr) => (/\ AverageTrueRangePeriod(atr') = AverageTrueRangePeriod(atr)
                           /\ atr'.ema.k = atr.ema.k)]_vars

\* ATR(3) after bars, a reset and more bars
C14_Witness ==
    /\ IsOk(atr) /\ last = "nexta" /\ resets = 1 /\ steps = 5
    /\ Len(hist) = 2
    /\ AverageTrueRangePeriod(atr) = 3 /\ req = 3

(* C16: a WindowedExponentialMovingAverage(p) fed n <= p inputs since new  *)
(* or reset returns the first input first and then x*k + previous_wsum *   *)
(* (1-k), k = 2/(p+1): the plain EMA over all n inputs; the eviction       *)
(* correction is applied on an update if and only if at least p inputs had *)
(* been fed before it.                                                     *)
C16_WemaWarmUp ==
    /\ []((IsOk(wema) /\ last = "nexta" /\ Len(hist) <= wema.period) =>
              out = PlainEma(Rat(2, wema.period + 1), hist))
    /\ [][(IsOk(wema) /\ last' = "nexta" /\ hist' # hist) =>
              LET n == Len(hist')
                  x == hist'[n]
                  p == wema.period
                  k == Rat(2, p + 1)
                  plain == RAdd(RMul(x, k), RMul(wema.wsum, RSub(One, k)))
                  factor == RPowi(RSub(One, k), p)
              IN  IF Len(hist) = 0 THEN out' = x
                  ELSE IF Len(hist) < p THEN out' = plain
                  ELSE out' = RAdd(RSub(plain, RMul(hist'[n - p], factor)),
                                   RMul(hist'[n - p + 1], factor))]_vars

\* WEMA(3), after a reset, fed exactly three distinct inputs: window just full
C16_Witness ==
    /\ IsOk(wema) /\ last = "nexta" /\ resets = 1
    /\ wema.period = 3 /\ Len(hist) = 3 /\ wema.count = 3
    /\ hist[1] # hist[2] /\ hist[2] # hist[3] /\ hist[1] # hist[3]

(* C17: in every reachable state of WindowedExponentialMovingAverage(p),   *)
(* count = min(n, p) and index = n mod p, n the number of nexta calls      *)
(* since new or the last reset; count never exceeds period and never       *)
(* decreases except on reset.                                              *)
C17_WemaCountAndIndex ==
    /\ [](IsOk(wema) =>
              /\ wema.count = Min2(Len(hist), wema.period)
              /\ wema.index = Len(hist) % wema.period
              /\ wema.count <= wema.period)
    /\ [][(IsOk(wema) /\ last' # "reset") => wema'.count >= wema.count]_vars

\* WEMA(3): a reset, then four inputs: count saturated, index wrapped to 1
C17_Witness ==
    /\ IsOk(wema) /\ last = "nexta" /\ resets = 1
    /\ wema.period = 3 /\ Len(hist) = 4
    /\ wema.count = 3 /\ wema.index = 1

(* C18: whenever nexta(x) is called with x strictly less than the value at *)
(* the cached extremum index before the call, the cached extremum index    *)
(* after the call is the slot x was written to (the write index before it  *)
(* advanced), also when that slot was itself the cached extremum slot.     *)
C18_MinimumFastPath ==
    [][(/\ IsOk(min) /\ last' = "nexta" /\ hist' # hist
        /\ hist'[Len(hist')] < min.deque[min.min_index]) =>
           min'.min_index = min.cur_index]_vars

\* Minimum(3): the fourth input is a new strict minimum and overwrites
\* slot 0, which held the cached minimum hist[1]
C18_Witness ==
    /\ IsOk(min) /\ last = "nexta" /\ resets = 0
    /\ min.period = 3 /\ Len(hist) = 4
    /\ hist[1] < hist[2] /\ hist[1] < hist[3]
    /\ hist[4] < hist[1]
    /\ min.min_index = 0 /\ min.cur_index = 1

(* C19: in every reachable state Minimum has 0 <= cur_index < period and   *)
(* 0 <= min_index < period, WindowedExponentialMovingAverage has           *)
(* 0 <= index < period, the buffer of each has exactly period slots, and   *)
(* each update advances the write index by one modulo period.              *)
C19_IndicesInRange ==
    /\ [](/\ IsOk(min) =>
                /\ min.cur_index \in 0..(min.period - 1)
                /\ min.min_index \in 0..(min.period - 1)
                /\ DOMAIN min.deque = 0..(min.period - 1)
          /\ IsOk(wema) =>
                /\ wema.index \in 0..(wema.period - 1)
                /\ DOMAIN wema.deque = 0..(wema.period - 1))
    /\ [][/\ (IsOk(min) /\ last' = "nexta" /\ hist' # hist) =>
                min'.cur_index = (min.cur_index + 1) % min.period
          /\ (IsOk(wema) /\ last' = "nexta" /\ hist' # hist) =>
                wema'.index = (wema.index + 1) % wema.period]_vars

\* Minimum(3) whose write index has wrapped and stands at the last slot
C19_Witness ==
    /\ IsOk(min) /\ last = "nexta"
    /\ min.period = 3 /\ steps = 5 /\ Len(hist) = 5
    /\ min.cur_index = 2 /\ min.min_index = 2

(* C20: after new, after every nexta and after every reset, the value at   *)
(* min_index is less than or equal to the value in every slot of the       *)
(* buffer (sentinel slots included), so the returned value is the minimum  *)
(* of the whole buffer.                                                    *)
C20_MinimumCachedIndex ==
    IsOk(min) =>
        /\ \A i \in DOMAIN min.deque : min.deque[min.min_index] <= min.deque[i]
        /\ last = "nexta" =>
               /\ out = min.deque[min.min_index]
               /\ \A i \in DOMAIN min.deque : out <= min.deque[i]

\* Minimum(3) after a rescan: the old minimum hist[1] left the window, the
\* cached slot is neither the newest nor the first
C20_Witness ==
    /\ IsOk(min) /\ last = "nexta" /\ resets = 0
    /\ min.period = 3 /\ Len(hist) = 4
    /\ hist[1] < hist[3] /\ hist[3] < hist[2] /\ hist[3] < hist[4]
    /\ min.min_index = 2

\* a <= b on rationals
RLe(a, b) == ~RLt(b, a)

\* lo <= v <= hi for the least lo and the greatest hi of the non-empty
\* sequence s of rationals
RBetween(v, s) ==
    /\ \E i \in 1..Len(s) : RLe(s[i], v)
    /\ \E i \in 1..Len(s) : RLe(v, s[i])

(* C21: every output of ExponentialMovingAverage lies between the minimum  *)
(* and the maximum of all inputs fed since construction or the last reset, *)
(* and every output of WindowedExponentialMovingAverage(p) lies between    *)
(* the minimum and the maximum of the last min(n, p) inputs.               *)
C21_SmootherOutputsBounded ==
    /\ (IsOk(ema) /\ last = "nexta") => RBetween(out, hist)
    /\ (IsOk(wema) /\ last = "nexta") =>
           RBetween(out, LastN(hist, Min2(Len(hist), wema.period)))

\* WEMA(2) fed three inputs after a reset: the largest one, hist[1], has
\* left the window, and the output is strictly inside the window's range
C21_Witness ==
    /\ IsOk(wema) /\ last = "nexta" /\ resets = 1
    /\ wema.period = 2 /\ Len(hist) = 3
    /\ RLt(hist[2], hist[1]) /\ RLt(hist[3], hist[2])
    /\ RLt(hist[3], out) /\ RLt(out, hist[2])

(* C22: with period = 1, every nexta(x) call on Minimum,                   *)
(* ExponentialMovingAverage and WindowedExponentialMovingAverage returns   *)
(* exactly x, for any input sequence and any interleaving of resets.       *)
C22_PeriodOneIdentity ==
    (/\ IsOk(min) \/ IsOk(ema) \/ IsOk(wema)
     /\ req = 1
     /\ last = "nexta") =>
        out = hist[Len(hist)]

\* WEMA(1): the window is full from the second call on, so each later
\* call takes the eviction branch; three distinct inputs after a reset
C22_Witness ==
    /\ IsOk(wema) /\ last = "nexta" /\ resets = 1
    /\ wema.period = 1 /\ req = 1 /\ Len(hist) = 3
    /\ hist[1] # hist[2] /\ hist[2] # hist[3]
    /\ out = hist[3]

=============================================================================
